---- MODULE Spec2Model ----
(***************************************************************************)
(* Model of bdi_api/s4/exercise.py :: download_data.                       *)
(*                                                                         *)
(* Two requests ("runs") to POST /api/s4/aircraft/download are handled by  *)
(* the same process.  Each run scrapes the listing page, falls back to the *)
(* generated file names when no link qualifies, truncates the candidate    *)
(* list to file_limit and then, one candidate at a time, requests the file *)
(* and uploads it to the object store.  The remote source, the request     *)
(* parameter and the object store's failures are fixed by Init, so both    *)
(* runs see the same inputs; their steps interleave freely.                *)
(*                                                                         *)
(* Python strings are TLA+ strings, handled with Len, SubSeq and \o.       *)
(***************************************************************************)
EXTENDS Integers, Sequences, FiniteSets, TLC

(* ------------------------------ bounds --------------------------------- *)

\* largest file_limit a request carries
MaxLimit == 3
\* file_limit ranges down to -MaxNeg
MaxNeg == 2

\* the two requests
Runs == {"A", "B"}

(* ------------------------- string primitives --------------------------- *)

Min(a, b) == IF a <= b THEN a ELSE b
Max(a, b) == IF a >= b THEN a ELSE b

\* str.startswith
startswith(s, p) == Len(s) >= Len(p) /\ SubSeq(s, 1, Len(p)) = p

\* the Python operator `sub in s`
contains(s, sub) ==
    \E i \in 1..(Len(s) - Len(sub) + 1) : SubSeq(s, i, i + Len(sub) - 1) = sub

\* str.rstrip('/')
RECURSIVE rstrip_slash(_)
rstrip_slash(s) ==
    IF Len(s) > 0 /\ SubSeq(s, Len(s), Len(s)) = "/"
    THEN rstrip_slash(SubSeq(s, 1, Len(s) - 1))
    ELSE s

\* position of the last "/" of s, 0 when there is none
last_slash(s) ==
    LET P == {i \in 1..Len(s) : SubSeq(s, i, i) = "/"}
    IN  IF P = {} THEN 0 ELSE CHOOSE i \in P : \A j \in P : j <= i

\* faulty variant of s3_filename: the first segment instead of the last
s3_filename_first(filename) ==
    LET P == {i \in 1..Len(filename) : SubSeq(filename, i, i) = "/"}
    IN  IF P = {} THEN filename
        ELSE SubSeq(filename, 1, (CHOOSE i \in P : \A j \in P : i <= j) - 1)

\* filename.split("/")[-1]
s3_filename(filename) == SubSeq(filename, last_slash(filename) + 1, Len(filename))

Digits == <<"0", "1", "2", "3", "4", "5", "6", "7", "8", "9">>

\* str(n) for n >= 0
RECURSIVE decimal(_)
decimal(n) ==
    IF n < 10 THEN Digits[n + 1] ELSE decimal(n \div 10) \o Digits[(n % 10) + 1]

\* faulty variant of fmt02d: no zero padding
fmt02d_nopad(n) == decimal(n)

\* the format spec {n:02d}: at least two digits, padded with zeros
fmt02d(n) == IF n < 10 THEN "0" \o decimal(n) ELSE decimal(n)

\* list(range(start, stop, step)) for step > 0
range(start, stop, step) ==
    [i \in 1..Max(0, (stop - start + step - 1) \div step) |-> start + (i - 1) * step]

\* faulty variant of slice_to: one element too many
slice_to_incl(seq, n) ==
    IF n >= 0 THEN SubSeq(seq, 1, Min(n + 1, Len(seq)))
    ELSE SubSeq(seq, 1, Max(Len(seq) + n + 1, 0))

\* the slice seq[:n]; a negative n counts from the end of the list
slice_to(seq, n) ==
    IF n >= 0 THEN SubSeq(seq, 1, Min(n, Len(seq)))
    ELSE SubSeq(seq, 1, Max(Len(seq) + n, 0))

(* ------------------------- fixed configuration ------------------------- *)

\* settings.source_url
source_url == "http://s/"

base_url == rstrip_slash(source_url) \o "/2023/11/01/"

s3_prefix_path == "raw/day=20231101/"

Hours == 24
Minutes == 60
Seconds == 60
SecondStep == 5

(* ---------------------- extraction and fallback ------------------------ *)

\* a.get("href") is truthy and contains ".json"
qualifies(a) ==
    /\ "href" \in DOMAIN a
    /\ a.href # ""
    /\ contains(a.href, ".json")

\* the list comprehension over soup.find_all("a")
RECURSIVE extract(_)
extract(anchors) ==
    IF anchors = <<>> THEN <<>>
    ELSE (IF qualifies(Head(anchors)) THEN <<Head(anchors).href>> ELSE <<>>)
         \o extract(Tail(anchors))

\* the three nested loops of the fallback, in the order they append
FallbackNames ==
    LET H == range(0, Hours, 1)
        M == range(0, Minutes, 1)
        S == range(0, Seconds, SecondStep)
        nm == Len(M)
        ns == Len(S)
    IN  [k \in 1..(Len(H) * nm * ns) |->
            LET h == H[((k - 1) \div (nm * ns)) + 1]
                m == M[(((k - 1) \div ns) % nm) + 1]
                s == S[((k - 1) % ns) + 1]
            IN  fmt02d(h) \o fmt02d(m) \o fmt02d(s) \o "Z.json.gz"]

\* faulty variant of candidates: the generated names are appended in every case
candidates_always(extracted) == extracted \o FallbackNames

\* `if not all_links:` guards the appends of the fallback
candidates(extracted) ==
    IF extracted = <<>> THEN extracted \o FallbackNames ELSE extracted

\* the URL requested for a candidate
file_url(filename) ==
    IF startswith(filename, "http") THEN filename ELSE base_url \o filename

\* the object key of a candidate
s3_key(name) == s3_prefix_path \o name

\* faulty variant of is_success: every response is stored
is_success_any(status_code) == status_code < 600

\* file_response.status_code == 200
is_success(status_code) == status_code = 200

\* faulty variant of put_object: an existing key is kept and a copy is added
put_object_copy(st, key, body) ==
    LET k2 == IF key \in DOMAIN st THEN key \o ".1" ELSE key
    IN  [k \in DOMAIN st \cup {k2} |-> IF k = k2 THEN body ELSE st[k]]

\* upload_fileobj writes the body under the key, replacing what was there
put_object(st, key, body) ==
    [k \in DOMAIN st \cup {key} |-> IF k = key THEN body ELSE st[k]]

(* ------------------------------ inputs --------------------------------- *)

PageEmpty == <<>>
PageBlocked == <<[href |-> "/"], [id |-> "top"], [href |-> ""], [href |-> "y.js"]>>
PageDup == <<[href |-> "../"], [href |-> "b.json.gz"], [href |-> "x/b.json.gz"],
             [id |-> "top"], [href |-> "b.json.gz"]>>
PageAbs == <<[href |-> "http://m/p/c.json"], [href |-> "d.json.gz"]>>
Pages == {PageEmpty, PageBlocked, PageDup, PageAbs}

\* the candidates a run over page p with limit n gets to
Reach(p, n) ==
    LET l == slice_to(candidates(extract(p)), n)
    IN  {l[i] : i \in 1..Len(l)}

\* the file_limit values tried for page p: a negative limit on a list longer
\* than MaxLimit asks for more files than the bound
Limits(p) ==
    IF Len(candidates(extract(p))) <= MaxLimit
    THEN (-MaxNeg)..MaxLimit
    ELSE 0..MaxLimit

(* ------------------------------- state --------------------------------- *)

VARIABLES
    page,               \* anchors of the listing page the remote serves
    file_limit,         \* the query parameter of both requests
    status,             \* remote: URL -> status code, 404 for any other URL
    raises,             \* remote: URLs whose request raises a network error
    bad_keys,           \* object store: keys whose upload raises
    store,              \* object store: key -> URL the body came from
    pc,                 \* per run: position in download_data
    all_links,          \* per run: the local all_links
    links_to_download,  \* per run: the local links_to_download
    idx,                \* per run: position of the for loop, from 1
    downloaded_count,   \* per run: the local downloaded_count
    requested,          \* per run: URLs requested from the remote, in order
    error,              \* per run: the exception that left the handler
    result              \* per run: the value returned

vars == <<page, file_limit, status, raises, bad_keys, store, pc, all_links,
          links_to_download, idx, downloaded_count, requested, error, result>>

env == <<page, file_limit, status, raises, bad_keys>>

Init ==
    /\ page \in Pages
    /\ file_limit \in Limits(page)
    /\ \E o \in [{file_url(n) : n \in Reach(page, file_limit)} -> {"200", "404", "raise"}] :
          /\ raises = {u \in DOMAIN o : o[u] = "raise"}
          /\ status = [u \in {v \in DOMAIN o : o[v] # "raise"} |->
                          IF o[u] = "200" THEN 200 ELSE 404]
    /\ bad_keys \in {{}} \cup {{s3_key(s3_filename(n))} : n \in Reach(page, file_limit)}
    /\ store = <<>>
    /\ pc = [r \in Runs |-> "idle"]
    /\ all_links = [r \in Runs |-> <<>>]
    /\ links_to_download = [r \in Runs |-> <<>>]
    /\ idx = [r \in Runs |-> 0]
    /\ downloaded_count = [r \in Runs |-> 0]
    /\ requested = [r \in Runs |-> <<>>]
    /\ error = [r \in Runs |-> "none"]
    /\ result = [r \in Runs |-> "none"]

\* the status code the remote answers for url
status_code(url) == IF url \in DOMAIN status THEN status[url] ELSE 404

\* the candidate of the current iteration
filename(r) == links_to_download[r][idx[r]]

(* ------------------------------ actions -------------------------------- *)

\* lines 51-64: get the listing, extract the links, fall back when empty
List(r) ==
    /\ pc[r] = "idle"
    /\ all_links' = [all_links EXCEPT ![r] = candidates(extract(page))]
    /\ pc' = [pc EXCEPT ![r] = "listed"]
    /\ UNCHANGED <<env, store, links_to_download, idx, downloaded_count,
                   requested, error, result>>

\* lines 68-71: truncate and enter the loop; all_links is not read after
\* line 68 and the model releases it there
Truncate(r) ==
    /\ pc[r] = "listed"
    /\ links_to_download' =
          [links_to_download EXCEPT ![r] = slice_to(all_links[r], file_limit)]
    /\ downloaded_count' = [downloaded_count EXCEPT ![r] = 0]
    /\ idx' = [idx EXCEPT ![r] = 1]
    /\ pc' = [pc EXCEPT ![r] = "loop"]
    /\ all_links' = [all_links EXCEPT ![r] = <<>>]
    /\ UNCHANGED <<env, store, requested, error, result>>

\* an exception raised inside the loop: nothing in lines 72-85 catches it
Propagate(r, exc) ==
    /\ pc' = [pc EXCEPT ![r] = "failed"]
    /\ error' = [error EXCEPT ![r] = exc]
    /\ UNCHANGED <<idx, downloaded_count, store, result>>

\* lines 84-85: report the failure and go on with the next candidate
Skip(r) ==
    /\ idx' = [idx EXCEPT ![r] = idx[r] + 1]
    /\ UNCHANGED <<pc, error, downloaded_count, store, result>>

\* requests.get raises for the file of one candidate
get_raised(r) == Propagate(r, "ConnectionError")

\* faulty variant of upload_raised: the upload error is swallowed
upload_raised_skip(r) ==
    /\ pc' = [pc EXCEPT ![r] = "loop"]
    /\ idx' = [idx EXCEPT ![r] = idx[r] + 1]
    /\ UNCHANGED <<error, downloaded_count, store, result>>

\* upload_fileobj raises for the file of one candidate
upload_raised(r) == Propagate(r, "S3UploadFailedError")

\* lines 72-78 and 84-85: request the file of the current candidate
Get(r) ==
    /\ pc[r] = "loop"
    /\ idx[r] <= Len(links_to_download[r])
    /\ LET url == file_url(filename(r))
       IN  /\ requested' = [requested EXCEPT ![r] = Append(requested[r], url)]
           /\ IF url \in raises
              THEN get_raised(r)
              ELSE IF is_success(status_code(url))
                   THEN /\ pc' = [pc EXCEPT ![r] = "upload"]
                        /\ UNCHANGED <<idx, downloaded_count, store, error, result>>
                   ELSE Skip(r)
    /\ UNCHANGED <<env, all_links, links_to_download>>

\* the upload of the fetched body under key, and the bookkeeping after it
UploadAs(r, key) ==
    /\ pc[r] = "upload"
    /\ IF key \in bad_keys
       THEN upload_raised(r)
       ELSE /\ store' = put_object(store, key, file_url(filename(r)))
            /\ downloaded_count' =
                  [downloaded_count EXCEPT ![r] = downloaded_count[r] + 1]
            /\ idx' = [idx EXCEPT ![r] = idx[r] + 1]
            /\ pc' = [pc EXCEPT ![r] = "loop"]
            /\ UNCHANGED <<error, result>>
    /\ UNCHANGED <<env, all_links, links_to_download, requested>>

\* faulty variant of Upload: the key carries the run, as a timestamp would
Upload_run_keyed(r) == UploadAs(r, s3_key(r \o "_" \o s3_filename(filename(r))))

\* lines 79-83: store the body of a 200 response
Upload(r) == UploadAs(r, s3_key(s3_filename(filename(r))))

\* lines 87-88: the loop is exhausted
Return(r) ==
    /\ pc[r] = "loop"
    /\ idx[r] > Len(links_to_download[r])
    /\ pc' = [pc EXCEPT ![r] = "done"]
    /\ result' = [result EXCEPT ![r] = "OK"]
    /\ UNCHANGED <<env, store, all_links, links_to_download, idx,
                   downloaded_count, requested, error>>

Next ==
    \E r \in Runs :
        \/ List(r)
        \/ Truncate(r)
        \/ Get(r)
        \/ Upload(r)
        \/ Return(r)

Spec == Init /\ [][Next]_vars

(* ------------------------------ claims --------------------------------- *)

\* the candidate list the listing page leads to
Listing == candidates(extract(page))

\* the object key the handler derives from a candidate
KeyOf(name) == s3_key(s3_filename(name))

Finished(r) == pc[r] \in {"done", "failed"}

\* C1: for file_limit N >= 0 and a candidate list of length L, a run only
\* ever requests the first candidates of the list, one per iteration and in
\* the list's order, never more than min(N, L) of them, and a run whose loop
\* ends has requested exactly the first min(N, L).
C1_FirstMinRequested ==
    file_limit >= 0 =>
        \A r \in Runs :
            LET n == Min(file_limit, Len(Listing))
            IN  /\ Len(requested[r]) <= n
                /\ \A i \in 1..Len(requested[r]) :
                      requested[r][i] = file_url(Listing[i])
                /\ pc[r] \in {"loop", "upload"} =>
                      Len(requested[r]) \in {idx[r] - 1, idx[r]}
                /\ pc[r] = "done" => Len(requested[r]) = n

C1_Witness ==
    \E r \in Runs :
        /\ pc[r] = "done"
        /\ file_limit >= 2
        /\ file_limit < Len(Listing)
        /\ Len(requested[r]) = file_limit

\* C2: with file_limit <= 0 no file is requested, nothing is stored and the
\* run returns "OK".
C2_NonPositiveLimitFetchesNothing ==
    file_limit <= 0 =>
        \A r \in Runs :
            /\ requested[r] = <<>>
            /\ DOMAIN store = {}
            /\ pc[r] \notin {"upload", "failed"}
            /\ pc[r] = "done" => result[r] = "OK"

\* C3: a response other than 200 is skipped and never ends the batch: no
\* object comes from such a response, a run is only ever ended by an
\* exception, and a run that returns has requested every candidate within the
\* limit, has counted exactly the requests answered 200 and returns "OK".
C3_NonSuccessSkipped ==
    /\ \A k \in DOMAIN store : status_code(store[k]) = 200
    /\ \A r \in Runs :
        /\ pc[r] = "failed" =>
              LET u == requested[r][Len(requested[r])]
                  name == links_to_download[r][Len(requested[r])]
              IN  \/ u \in raises
                  \/ status_code(u) = 200 /\ KeyOf(name) \in bad_keys
        /\ pc[r] = "done" =>
              /\ result[r] = "OK"
              /\ Len(requested[r]) = Len(links_to_download[r])
              /\ downloaded_count[r] =
                    Cardinality({i \in 1..Len(requested[r]) :
                                    status_code(requested[r][i]) = 200})

C3_Witness ==
    \E r \in Runs :
        /\ pc[r] = "done"
        /\ file_limit > Len(requested[r])
        /\ \E i, j \in 1..Len(requested[r]) :
              /\ i < j
              /\ status_code(requested[r][i]) # 200
              /\ status_code(requested[r][j]) = 200
        /\ downloaded_count[r] = Len(requested[r]) - 1

\* C4: a network error raised by the request for one candidate is skipped:
\* the run goes on and is not ended by it.
C4_NetworkErrorSkipped ==
    \A r \in Runs :
        (\E i \in 1..Len(requested[r]) : requested[r][i] \in raises) =>
            /\ pc[r] # "failed"
            /\ error[r] = "none"

DigitValue(c) == CHOOSE d \in 0..9 : Digits[d + 1] = c

IsDigit(c) == \E d \in 0..9 : Digits[d + 1] = c

\* the number written in the two characters of name from position i
Field(name, i) ==
    10 * DigitValue(SubSeq(name, i, i)) + DigitValue(SubSeq(name, i + 1, i + 1))

\* name is HHMMSS followed by "Z.json.gz" for a time on the 5-second grid
IsGridName(name) ==
    /\ Len(name) = 15
    /\ SubSeq(name, 7, 15) = "Z.json.gz"
    /\ \A j \in 1..6 : IsDigit(SubSeq(name, j, j))
    /\ Field(name, 1) \in 0..23
    /\ Field(name, 3) \in 0..59
    /\ Field(name, 5) \in {5 * q : q \in 0..11}

SecondOfDay(name) == 3600 * Field(name, 1) + 60 * Field(name, 3) + Field(name, 5)

\* what the generator yields, whatever the request: exactly 17,280 names,
\* each on the 5-second grid, strictly ascending by time of day
GeneratedWellFormed ==
    /\ Len(FallbackNames) = 17280
    /\ \A i \in 1..Len(FallbackNames) : IsGridName(FallbackNames[i])
    /\ \A i \in 1..(Len(FallbackNames) - 1) :
          SecondOfDay(FallbackNames[i]) < SecondOfDay(FallbackNames[i + 1])

\* C5: when the fallback branch has run, the candidate list is the
\* generator's output, and that holds exactly 17,280 names, each zero-padded
\* HHMMSS followed by "Z.json.gz" for an hour 0-23, a minute 0-59 and a
\* second in {0,5,...,55}, in strictly ascending time-of-day order (hence
\* one per time and no duplicates).
C5_FallbackEnumeration ==
    \A r \in Runs :
        (pc[r] = "listed" /\ \A i \in 1..Len(page) : ~qualifies(page[i])) =>
            /\ all_links[r] = FallbackNames
            /\ GeneratedWellFormed

C5_Witness ==
    \E r \in Runs :
        /\ pc[r] = "listed"
        /\ page = PageBlocked
        /\ Len(all_links[r]) > 0
        /\ all_links[r][Len(all_links[r])] = "235955Z.json.gz"

\* positions of the anchors whose href holds ".json"
Qualifying == {i \in 1..Len(page) :
                  "href" \in DOMAIN page[i] /\ contains(page[i].href, ".json")}

\* the k-th smallest element of the set of positions Q
Kth(Q, k) == CHOOSE i \in Q : Cardinality({j \in Q : j <= i}) = k

\* C6: the candidate list before truncation is the qualifying hrefs in
\* document order, duplicates kept and nothing generated added, when there
\* is at least one, and the full fallback enumeration when there is none.
C6_CandidatesByEmptiness ==
    \A r \in Runs :
        pc[r] = "listed" =>
            IF Qualifying # {}
            THEN /\ Len(all_links[r]) = Cardinality(Qualifying)
                 /\ \A k \in 1..Len(all_links[r]) :
                       all_links[r][k] = page[Kth(Qualifying, k)].href
            ELSE all_links[r] = FallbackNames

C6_Witness ==
    \E r \in Runs :
        /\ pc[r] = "listed"
        /\ Cardinality(Qualifying) = 3
        /\ Len(page) > 3
        /\ all_links[r][1] = all_links[r][3]

\* seg is the final '/'-separated segment of name
IsFinalSegment(seg, name) ==
    /\ ~contains(seg, "/")
    /\ Len(seg) <= Len(name)
    /\ SubSeq(name, Len(name) - Len(seg) + 1, Len(name)) = seg
    /\ \/ Len(seg) = Len(name)
       \/ SubSeq(name, Len(name) - Len(seg), Len(name) - Len(seg)) = "/"

\* C7: every object in the store lies under "raw/day=20231101/" followed by
\* the final '/'-separated segment of the candidate it was fetched for,
\* whether that candidate is a relative name or a full URL.
C7_KeysFromFinalSegment ==
    \A k \in DOMAIN store :
        /\ SubSeq(k, 1, 17) = "raw/day=20231101/"
        /\ \E r \in Runs : \E i \in 1..Len(links_to_download[r]) :
              LET name == links_to_download[r][i]
              IN  /\ i <= idx[r]
                  /\ store[k] = (IF SubSeq(name, 1, 4) = "http" THEN name
                                 ELSE base_url \o name)
                  /\ IsFinalSegment(SubSeq(k, 18, Len(k)), name)

C7_Witness ==
    /\ \E k \in DOMAIN store : store[k] = "http://m/p/c.json"
    /\ \E k \in DOMAIN store : store[k] = base_url \o "d.json.gz"

\* C8: once one run has ended, a run with the same inputs leaves the set of
\* stored keys as it is: it overwrites and adds no key.
C8_RerunAddsNoKey ==
    [][(\E r \in Runs : Finished(r)) => DOMAIN store' = DOMAIN store]_vars

C8_Witness ==
    /\ pc["A"] = "done"
    /\ pc["B"] = "done"
    /\ Cardinality(DOMAIN store) >= 2
    /\ downloaded_count["A"] + downloaded_count["B"] > Cardinality(DOMAIN store)

\* the iteration at which a run over the candidates l is ended by an
\* exception, Len(l) + 1 when it returns
StopAt(l) ==
    LET E == {i \in 1..Len(l) :
                \/ file_url(l[i]) \in raises
                \/ status_code(file_url(l[i])) = 200 /\ KeyOf(l[i]) \in bad_keys}
    IN  IF E = {} THEN Len(l) + 1 ELSE CHOOSE i \in E : \A j \in E : i <= j

\* the keys a single run over l has stored after n iterations
KeysAfter(l, n) ==
    {KeyOf(l[i]) : i \in {j \in 1..Min(n, StopAt(l) - 1) :
                             status_code(file_url(l[j])) = 200}}

\* C9: while two runs with the same inputs interleave, the set of stored
\* keys is always one a single run produces on its way, and when both have
\* ended it is the set a single run ends with.
C9_InterleavedRunsSameKeys ==
    LET l == slice_to(Listing, file_limit)
    IN  /\ \E n \in 0..Len(l) : DOMAIN store = KeysAfter(l, n)
        /\ (\A r \in Runs : Finished(r)) => DOMAIN store = KeysAfter(l, Len(l))

C9_Witness ==
    /\ pc["A"] = "upload"
    /\ pc["B"] = "upload"
    /\ idx["A"] > idx["B"]
    /\ DOMAIN store # {}

\* C10: a run never gets past a candidate whose upload fails: the failure
\* ends the run without "OK", nothing later is requested, and the store
\* holds exactly the keys of the earlier candidates answered 200.
C10_UploadFailureAborts ==
    \A r \in Runs : \A i \in 1..Len(requested[r]) :
        (status_code(requested[r][i]) = 200
            /\ KeyOf(links_to_download[r][i]) \in bad_keys) =>
            /\ i = Len(requested[r])
            /\ idx[r] = i
            /\ pc[r] \in {"upload", "failed"}
            /\ result[r] = "none"
            /\ pc[r] = "failed" =>
                  /\ error[r] = "S3UploadFailedError"
                  /\ DOMAIN store =
                        {KeyOf(links_to_download[r][j]) :
                            j \in {m \in 1..(i - 1) :
                                      status_code(requested[r][m]) = 200}}

C10_Witness ==
    \E r \in Runs :
        /\ error[r] = "S3UploadFailedError"
        /\ idx[r] >= 2
        /\ DOMAIN store # {}

====
